---- MODULE Spec2Model ----
(***************************************************************************)
(* Model of the account-filter pallet (frame/account-filter/src/lib.rs):   *)
(* the allow-list storage, the vote storage, the vote_for_account          *)
(* extrinsic and the AllowAccount signed extension (validate and           *)
(* pre_dispatch).                                                          *)
(***************************************************************************)
EXTENDS Integers, Sequences, FiniteSets, TLC

\* ------------------------------------------------------------------ bounds

\* Number of account ids of the model; AccountId is 1..NumAccounts.
NumAccounts == 4

\* ------------------------------------------------------------- value sets

\* T::AccountId.
Accounts == 1 .. NumAccounts

\* The `who` slot of an origin that carries no signer.
NoAccount == 0

\* OriginFor<T>: a signed origin carries an account; "None" stands for every
\* origin that carries none (RawOrigin::Root, RawOrigin::None).
Origins ==
    [kind : {"Signed"}, who : Accounts] \cup [kind : {"None"}, who : {NoAccount}]

\* T::RuntimeCall values handed to the signed extension: one call the
\* runtime's matcher blocks and one it lets through.
Calls == {"BLOCKED_CALL", "remark"}

\* The calls T::CallsToFilter::matches answers true for (fixed by the runtime).
CallsToFilter == {"BLOCKED_CALL"}

\* info.weight.ref_time() of the DispatchInfo handed to the signed extension.
RefTimes == {7}

\* Values of T::VotesToAllow (a Percent is a whole number of hundredths, 0..=100).
Percents == {0, 34, 51, 100}

\* Genesis configurations: account ids are opaque and the pallet treats them
\* alike, so the genesis allow-lists {}, {1}, {1, 2}, ... stand for all of them.
GenesisConfigs == {1 .. n : n \in 0 .. NumAccounts}

\* ------------------------------------------------------------------ state

VARIABLES
    allowedAccounts,   \* AllowedAccounts<T>: the keys of the storage map
    votes,             \* Votes<T>: the (new_account, account) keys of the double map
    events,            \* the events the latest call deposited, oldest first (the
                       \* block's event list, taken to be empty when a call starts)
    genesisAccounts,   \* GenesisConfig.allowed_accounts (fixed at genesis)
    votesToAllow,      \* T::VotesToAllow::get(), a percentage (fixed)
    last               \* the latest call made into the pallet and what it returned

vars ==
    <<allowedAccounts, votes, events, genesisAccounts, votesToAllow, last>>

config == <<genesisAccounts, votesToAllow>>

\* --------------------------------------------------------- pure operators

\* All orders in which the elements of the finite set S can be enumerated.
Orders(S) ==
    {s \in [1 .. Cardinality(S) -> S] : \A i, j \in 1 .. Cardinality(S) : i # j => s[i] # s[j]}

\* from_rational rounding the percentage up instead of down.
from_rational_rounding_up(p, q) ==
    IF q = 0 \/ p > q THEN 100 ELSE (p * 100 + q - 1) \div q

\* Percent::from_rational(p, q): q = 0 or p > q give Percent::one(), anything
\* else the whole percentage p * 100 / q rounded down.
from_rational(p, q) ==
    IF q = 0 \/ p > q THEN 100 ELSE (p * 100) \div q

\* Votes::<T>::iter_prefix(&new_account): the accounts that voted for new_account.
iter_prefix(new_account) ==
    {v \in Accounts : <<new_account, v>> \in votes}

\* The count of recorded votes without the vote being cast.
votes_for_without_cast(new_account) ==
    Cardinality(iter_prefix(new_account))

\* let votes_for = Votes::<T>::iter_prefix(&new_account).count() + 1;
votes_for(new_account) ==
    Cardinality(iter_prefix(new_account)) + 1

\* let votes_required = AllowedAccounts::<T>::iter().count();
votes_required ==
    Cardinality(allowedAccounts)

\* The threshold compared with > instead of >=.
enough_votes_strict(new_account) ==
    from_rational(votes_for(new_account), votes_required) > votesToAllow

\* percent >= T::VotesToAllow::get()
enough_votes(new_account) ==
    from_rational(votes_for(new_account), votes_required) >= votesToAllow

\* The AlreadyAllowed check made before the NotAllowedToVote check.
ensure_checks_candidate_first(origin, new_account) ==
    IF origin.kind # "Signed" THEN "BadOrigin"
    ELSE IF new_account \in allowedAccounts THEN "AlreadyAllowed"
    ELSE IF origin.who \notin allowedAccounts THEN "NotAllowedToVote"
    ELSE IF <<new_account, origin.who>> \in votes THEN "DuplicateVote"
    ELSE "Ok"

\* Only the accounts of the genesis allow-list admitted as voters.
ensure_checks_genesis_voters(origin, new_account) ==
    IF origin.kind # "Signed" THEN "BadOrigin"
    ELSE IF origin.who \notin genesisAccounts THEN "NotAllowedToVote"
    ELSE IF new_account \in allowedAccounts THEN "AlreadyAllowed"
    ELSE IF <<new_account, origin.who>> \in votes THEN "DuplicateVote"
    ELSE "Ok"

\* The checks without the DuplicateVote one.
ensure_checks_without_duplicate(origin, new_account) ==
    IF origin.kind # "Signed" THEN "BadOrigin"
    ELSE IF origin.who \notin allowedAccounts THEN "NotAllowedToVote"
    ELSE IF new_account \in allowedAccounts THEN "AlreadyAllowed"
    ELSE "Ok"

\* The checks without the NotAllowedToVote one: any signer may vote.
ensure_checks_any_signer(origin, new_account) ==
    IF origin.kind # "Signed" THEN "BadOrigin"
    ELSE IF new_account \in allowedAccounts THEN "AlreadyAllowed"
    ELSE IF <<new_account, origin.who>> \in votes THEN "DuplicateVote"
    ELSE "Ok"

\* ensure_signed and the three ensure! checks, in the order of the code: the
\* error of the first check that fails, "Ok" when all pass.
ensure_checks(origin, new_account) ==
    IF origin.kind # "Signed" THEN "BadOrigin"
    ELSE IF origin.who \notin allowedAccounts THEN "NotAllowedToVote"
    ELSE IF new_account \in allowedAccounts THEN "AlreadyAllowed"
    ELSE IF <<new_account, origin.who>> \in votes THEN "DuplicateVote"
    ELSE "Ok"

AccountVoted(referrer, referee) ==
    [event |-> "AccountVoted", referrer |-> referrer, referee |-> referee]

AccountAllowed(account, voted_for) ==
    [event |-> "AccountAllowed", account |-> account, voted_for |-> voted_for]

\* T::CallsToFilter::matches(call)
matches(call) ==
    call \in CallsToFilter

\* validate rejecting every non-member, whatever the call.
validate_ignoring_matcher(who, call, ref_time) ==
    IF who \notin allowedAccounts
    THEN [tag |-> "Err", err |-> "BadSigner"]
    ELSE [tag |-> "Ok",
          valid |-> [priority |-> ref_time, longevity |-> "max_value", propagate |-> TRUE]]

\* AllowAccount::validate(who, call, info, len)
validate(who, call, ref_time) ==
    IF matches(call) /\ who \notin allowedAccounts
    THEN [tag |-> "Err", err |-> "BadSigner"]
    ELSE [tag |-> "Ok",
          valid |-> [priority |-> ref_time, longevity |-> "max_value", propagate |-> TRUE]]

\* pre_dispatch that lets every transaction through without asking validate.
pre_dispatch_unchecked(who, call, ref_time) ==
    [tag |-> "Ok"]

\* AllowAccount::pre_dispatch(who, call, info, len): validate with the
\* ValidTransaction mapped to ().
pre_dispatch(who, call, ref_time) ==
    LET r == validate(who, call, ref_time)
    IN  IF r.tag = "Ok" THEN [tag |-> "Ok"] ELSE [tag |-> "Err", err |-> r.err]

\* ------------------------------------------------------------------ actions

\* Genesis: initialize_allowed_accounts inserts every account of the genesis
\* configuration; no vote is stored and no event deposited.
Init ==
    /\ genesisAccounts \in GenesisConfigs
    /\ votesToAllow \in Percents
    /\ allowedAccounts = genesisAccounts
    /\ votes = {}
    /\ events = <<>>
    /\ last = [op |-> "genesis"]

\* An early return of vote_for_account that has already stored the vote.
Rejected_after_insert(origin, new_account) ==
    /\ events' = <<>>
    /\ allowedAccounts' = allowedAccounts
    /\ votes' = votes \cup {<<new_account, origin.who>>}

\* An early return of vote_for_account made after AccountVoted was deposited.
Rejected_with_event(origin, new_account) ==
    /\ events' = <<AccountVoted(origin.who, new_account)>>
    /\ UNCHANGED <<allowedAccounts, votes>>

\* An early return of vote_for_account (the ? of ensure_signed, an ensure!):
\* nothing is written and no event deposited.
Rejected(origin, new_account) ==
    /\ events' = <<>>
    /\ UNCHANGED <<allowedAccounts, votes>>

\* The promoting branch without the insert into AllowedAccounts.
Promote_without_insert(account, new_account, drained) ==
    /\ allowedAccounts' = allowedAccounts
    /\ votes' = {p \in votes : p[1] # new_account}
    /\ events' = <<AccountVoted(account, new_account),
                  AccountAllowed(new_account, Append(drained, account))>>

\* The promoting branch reading the votes without draining them.
Promote_without_drain(account, new_account, drained) ==
    /\ allowedAccounts' = allowedAccounts \cup {new_account}
    /\ votes' = votes
    /\ events' = <<AccountVoted(account, new_account),
                  AccountAllowed(new_account, Append(drained, account))>>

\* The promoting branch handing the voter's place to the new account.
Promote_replacing_voter(account, new_account, drained) ==
    /\ allowedAccounts' = (allowedAccounts \ {account}) \cup {new_account}
    /\ votes' = {p \in votes : p[1] # new_account}
    /\ events' = <<AccountVoted(account, new_account),
                  AccountAllowed(new_account, Append(drained, account))>>

\* The promoting branch chaining the casting voter before the drained ones.
Promote_voter_first(account, new_account, drained) ==
    /\ allowedAccounts' = allowedAccounts \cup {new_account}
    /\ votes' = {p \in votes : p[1] # new_account}
    /\ events' = <<AccountVoted(account, new_account),
                  AccountAllowed(new_account, <<account>> \o drained)>>

\* The promoting branch clearing the whole of Votes instead of one prefix.
Promote_clearing_all_votes(account, new_account, drained) ==
    /\ allowedAccounts' = allowedAccounts \cup {new_account}
    /\ votes' = {}
    /\ events' = <<AccountVoted(account, new_account),
                  AccountAllowed(new_account, Append(drained, account))>>

\* The promoting branch of vote_for_account.
Promote(account, new_account, drained) ==
    /\ allowedAccounts' = allowedAccounts \cup {new_account}
    /\ votes' = {p \in votes : p[1] # new_account}
    /\ events' = <<AccountVoted(account, new_account),
                  AccountAllowed(new_account, Append(drained, account))>>

\* The recording branch writing the candidate's entry anew: the votes already
\* stored for the candidate are lost.
RecordVote_overwriting(account, new_account) ==
    /\ allowedAccounts' = allowedAccounts
    /\ votes' = {p \in votes : p[1] # new_account} \cup {<<new_account, account>>}
    /\ events' = <<AccountVoted(account, new_account)>>

\* The recording branch with the two keys of the double map swapped.
RecordVote_swapped_keys(account, new_account) ==
    /\ allowedAccounts' = allowedAccounts
    /\ votes' = votes \cup {<<account, new_account>>}
    /\ events' = <<AccountVoted(account, new_account)>>

\* The recording branch of vote_for_account.
RecordVote(account, new_account) ==
    /\ allowedAccounts' = allowedAccounts
    /\ votes' = votes \cup {<<new_account, account>>}
    /\ events' = <<AccountVoted(account, new_account)>>

\* The extrinsic vote_for_account(origin, new_account).
VoteForAccount(origin, new_account) ==
    LET res == ensure_checks(origin, new_account)
    IN  /\ last' = [op |-> "vote_for_account", origin |-> origin,
                    new_account |-> new_account, res |-> res]
        /\ IF res # "Ok"
           THEN Rejected(origin, new_account)
           ELSE IF enough_votes(new_account)
                THEN \E drained \in Orders(iter_prefix(new_account)) :
                        Promote(origin.who, new_account, drained)
                ELSE RecordVote(origin.who, new_account)
        /\ UNCHANGED config

\* validate remembering the signer it accepted in AllowedAccounts.
Validate_inserting_signer(who, call, ref_time) ==
    /\ last' = [op |-> "validate", who |-> who, call |-> call,
                res |-> validate(who, call, ref_time)]
    /\ events' = <<>>
    /\ allowedAccounts' = IF validate(who, call, ref_time).tag = "Ok"
                          THEN allowedAccounts \cup {who} ELSE allowedAccounts
    /\ UNCHANGED <<votes, config>>

\* The transaction queue asks AllowAccount::validate.
Validate(who, call, ref_time) ==
    /\ last' = [op |-> "validate", who |-> who, call |-> call,
                res |-> validate(who, call, ref_time)]
    /\ events' = <<>>
    /\ UNCHANGED <<allowedAccounts, votes, config>>

\* The executive asks AllowAccount::pre_dispatch.
PreDispatch(who, call, ref_time) ==
    /\ last' = [op |-> "pre_dispatch", who |-> who, call |-> call,
                res |-> pre_dispatch(who, call, ref_time)]
    /\ events' = <<>>
    /\ UNCHANGED <<allowedAccounts, votes, config>>

Next ==
    \/ \E origin \in Origins, new_account \in Accounts : VoteForAccount(origin, new_account)
    \/ \E who \in Accounts, call \in Calls, ref_time \in RefTimes : Validate(who, call, ref_time)
    \/ \E who \in Accounts, call \in Calls, ref_time \in RefTimes : PreDispatch(who, call, ref_time)

Spec == Init /\ [][Next]_vars

\* ------------------------------------------------- vocabulary of the claims

Signed(account) == [kind |-> "Signed", who |-> account]

\* The voters recorded for candidate c in the current state.
VotersFor(c) == {v \in Accounts : <<c, v>> \in votes}

\* The latest call was vote_for_account by signer v for candidate c.
VotedBy(v, c) ==
    /\ last.op = "vote_for_account"
    /\ last.origin = Signed(v)
    /\ last.new_account = c

\* The call the latest step made failed with one of the pallet's three errors.
PalletErrors == {"NotAllowedToVote", "AlreadyAllowed", "DuplicateVote"}

\* The latest call was an AccountAllowed-emitting (promoting) vote.
Promoted ==
    /\ last.op = "vote_for_account"
    /\ last.res = "Ok"
    /\ Len(events) = 2

\* ------------------------------------------------------------------ claims

\* C1: a successful vote_for_account(voter, candidate) promotes the candidate
\* iff votesFor * 100 >= votesRequired * thresholdPercent, with votesFor the
\* number of voters recorded for the candidate before the call plus one and
\* votesRequired the number of members before the call.
C1_PromotesIffQuorum ==
    [][\A v, c \in Accounts :
        (VotedBy(v, c)' /\ last'.res = "Ok") =>
            LET votesFor == Cardinality(VotersFor(c)) + 1
                votesRequired == Cardinality(allowedAccounts)
            IN  (c \notin allowedAccounts /\ c \in allowedAccounts')
                    <=> (votesFor * 100 >= votesRequired * votesToAllow)]_vars

\* C1 witness: a vote that promoted its candidate on the strength of at least
\* one earlier recorded vote, under a threshold that does not divide evenly.
C1_Witness ==
    /\ Promoted
    /\ Len(events[2].voted_for) >= 2
    /\ votesToAllow = 34

\* C2: vote_for_account returns the error of the first failing precondition in
\* the order NotAllowedToVote, AlreadyAllowed, DuplicateVote, and succeeds
\* exactly when none of the three fails.
C2_ChecksInOrder ==
    [][\A v, c \in Accounts :
        VotedBy(v, c)' =>
            last'.res = IF v \notin allowedAccounts THEN "NotAllowedToVote"
                        ELSE IF c \in allowedAccounts THEN "AlreadyAllowed"
                        ELSE IF <<c, v>> \in votes THEN "DuplicateVote"
                        ELSE "Ok"]_vars

\* C2 witness: a non-member voted for a member and got NotAllowedToVote.
C2_Witness ==
    /\ last.op = "vote_for_account"
    /\ last.origin.kind = "Signed"
    /\ last.origin.who \notin allowedAccounts
    /\ last.new_account \in allowedAccounts
    /\ last.res = "NotAllowedToVote"

\* C3: a vote_for_account call that fails with NotAllowedToVote, AlreadyAllowed
\* or DuplicateVote leaves the allow-list and the votes as they were and
\* deposits no event.
C3_FailureIsNoop ==
    [][(last'.op = "vote_for_account" /\ last'.res \in PalletErrors) =>
            /\ allowedAccounts' = allowedAccounts
            /\ votes' = votes
            /\ events' = <<>>]_vars

\* C3 witness: a duplicate vote was refused while votes are on record.
C3_Witness ==
    /\ last.op = "vote_for_account"
    /\ last.res = "DuplicateVote"
    /\ <<last.new_account, last.origin.who>> \in votes

\* C4: the admission check rejects with BadSigner iff the call matcher
\* classifies the call as restricted and the signer is not a member, and
\* accepts in every other case.
C4_RejectsIffRestrictedNonMember ==
    last.op \in {"validate", "pre_dispatch"} =>
        LET reject == last.call \in CallsToFilter /\ last.who \notin allowedAccounts
        IN  /\ reject => last.res = [tag |-> "Err", err |-> "BadSigner"]
            /\ ~reject => last.res.tag = "Ok"

\* C4 witness: a restricted call of a non-member was rejected.
C4_Witness ==
    /\ last.op = "validate"
    /\ last.call \in CallsToFilter
    /\ last.who \notin allowedAccounts
    /\ last.res.tag = "Err"

\* The admission check accepts a call of signer d in the current state.
Accepts(d, call) ==
    \A ref_time \in RefTimes : validate(d, call, ref_time).tag = "Ok"

\* C5: for a restricted call and an account d outside the genesis allow-list,
\* the admission check rejects in the initial state and in every state up to
\* the step that promotes d, accepts from that step on, and no other step
\* changes its answer (an acceptance is never followed by a rejection).
C5_RejectedUntilPromoted ==
    /\ \A d \in Accounts \ genesisAccounts, call \in CallsToFilter : ~Accepts(d, call)
    /\ [][\A d \in Accounts \ genesisAccounts, call \in CallsToFilter :
            IF Promoted' /\ last'.new_account = d
            THEN ~Accepts(d, call) /\ Accepts(d, call)'
            ELSE Accepts(d, call)' <=> Accepts(d, call)]_vars

\* C5 witness: validate accepted a restricted call of a promoted account.
C5_Witness ==
    /\ last.op = "validate"
    /\ last.who \notin genesisAccounts
    /\ last.call \in CallsToFilter
    /\ last.res.tag = "Ok"

\* C6: no member is a candidate key of the votes: the promoting call removes
\* every vote for the candidate in the step that makes it a member, and none
\* is recorded for a member afterwards.
C6_NoVotesForMembers ==
    \A p \in votes : p[1] \notin allowedAccounts

\* C6 witness: a candidate with recorded votes was promoted while votes for
\* another candidate stay on record.
C6_Witness ==
    /\ Promoted
    /\ Len(events[2].voted_for) >= 2
    /\ votes # {}

\* C7: a member stays a member in every later state, and a step adds at most
\* the candidate of a successful vote_for_account to the allow-list.
C7_MembershipOnlyGrows ==
    [][/\ allowedAccounts \subseteq allowedAccounts'
       /\ (allowedAccounts' \ allowedAccounts) \subseteq
            (IF last'.op = "vote_for_account" /\ last'.res = "Ok"
             THEN {last'.new_account} ELSE {})]_vars

\* C7 witness: two accounts have been promoted and a promoted account has
\* cast the latest promoting vote.
C7_Witness ==
    /\ Promoted
    /\ last.origin.who \notin genesisAccounts
    /\ Cardinality(allowedAccounts \ genesisAccounts) >= 2

\* C8: a promoting vote_for_account(voter, candidate) deposits AccountVoted
\* {referrer: voter, referee: candidate} and then AccountAllowed{account:
\* candidate, voted_for}, where voted_for holds every voter recorded before
\* the call exactly once, followed by the casting voter as last element.
C8_PromotionEvents ==
    [][\A v, c \in Accounts :
        (VotedBy(v, c)' /\ c \notin allowedAccounts /\ c \in allowedAccounts') =>
            /\ Len(events') = 2
            /\ events'[1] = [event |-> "AccountVoted", referrer |-> v, referee |-> c]
            /\ events'[2].event = "AccountAllowed"
            /\ events'[2].account = c
            /\ LET voted_for == events'[2].voted_for
                   n == Cardinality(VotersFor(c))
               IN  /\ Len(voted_for) = n + 1
                   /\ voted_for[n + 1] = v
                   /\ {voted_for[i] : i \in 1 .. n} = VotersFor(c)]_vars

\* C8 witness: a promotion whose voted_for lists two recorded voters and the
\* casting voter.
C8_Witness ==
    /\ Promoted
    /\ Len(events[2].voted_for) = 3

\* C9: vote_for_account(v, c) succeeds (the vote is recorded or c promoted)
\* whenever v is a member, c is not and (c, v) is not recorded, and fails
\* without effect whenever v is not a member.
C9_MemberCanAlwaysVote ==
    [][\A v, c \in Accounts :
        VotedBy(v, c)' =>
            /\ (v \in allowedAccounts /\ c \notin allowedAccounts /\ <<c, v>> \notin votes)
                    => /\ last'.res = "Ok"
                       /\ <<c, v>> \in votes' \/ c \in allowedAccounts'
            /\ v \notin allowedAccounts
                    => /\ last'.res # "Ok"
                       /\ UNCHANGED <<allowedAccounts, votes>>]_vars

\* C9 witness: an account promoted earlier cast a successful vote.
C9_Witness ==
    /\ last.op = "vote_for_account"
    /\ last.res = "Ok"
    /\ last.origin.who \in allowedAccounts \ genesisAccounts

\* ceil(votesToAllow * n / 100): the k of C10 for a membership of n accounts.
CeilQuorum(n) == (votesToAllow * n + 99) \div 100

\* The number of votes that promotes under a membership of n accounts: k, and
\* one vote when k is zero (a threshold of zero percent).
VotesNeeded(n) == IF CeilQuorum(n) = 0 THEN 1 ELSE CeilQuorum(n)

\* The j-th vote for a candidate, cast by a member that has not voted for it
\* under a membership of N accounts, succeeds, leaves the candidate a
\* non-member with the vote on record while j < k(N), and promotes it when
\* j = k(N); j never exceeds k(N).
VoteCountRule(k(_)) ==
    \A v, c \in Accounts :
        (/\ VotedBy(v, c)'
         /\ v \in allowedAccounts
         /\ c \notin allowedAccounts
         /\ <<c, v>> \notin votes) =>
            LET j == Cardinality(VotersFor(c)) + 1
                N == Cardinality(allowedAccounts)
            IN  /\ last'.res = "Ok"
                /\ j <= k(N)
                /\ j < k(N) => c \notin allowedAccounts' /\ VotersFor(c)' = VotersFor(c) \cup {v}
                /\ j = k(N) => c \in allowedAccounts'

C11_DuplicateVoteRefused ==
    [][\A v, c \in Accounts :
        /\ (VotedBy(v, c)' /\ last'.res = "Ok" /\ c \notin allowedAccounts')
                => <<c, v>> \in votes'
        /\ (<<c, v>> \in votes /\ c \notin allowedAccounts')
                => <<c, v>> \in votes'
        /\ (<<c, v>> \in votes /\ VotedBy(v, c)')
                => /\ last'.res = "DuplicateVote"
                   /\ votes' = votes
                   /\ allowedAccounts' = allowedAccounts]_vars

\* C11 witness: a second vote of the same voter for the same candidate was
\* refused after another candidate had been promoted in between.
C11_Witness ==
    /\ last.op = "vote_for_account"
    /\ last.res = "DuplicateVote"
    /\ <<last.new_account, last.origin.who>> \in votes
    /\ allowedAccounts # genesisAccounts

\* C12: a successful vote_for_account(voter, candidate) that does not meet the
\* threshold adds exactly (candidate, voter) to the votes, leaves the
\* allow-list and every other pair as they were, and deposits the single
\* event AccountVoted{referrer: voter, referee: candidate}.
C12_RecordedVoteFrame ==
    [][\A v, c \in Accounts :
        (/\ VotedBy(v, c)'
         /\ last'.res = "Ok"
         /\ (Cardinality(VotersFor(c)) + 1) * 100 < Cardinality(allowedAccounts) * votesToAllow)
            => /\ <<c, v>> \notin votes
               /\ votes' = votes \cup {<<c, v>>}
               /\ allowedAccounts' = allowedAccounts
               /\ events' = <<[event |-> "AccountVoted", referrer |-> v, referee |-> c]>>]_vars

\* C12 witness: a vote was recorded while a vote for another candidate is on
\* record.
C12_Witness ==
    /\ last.op = "vote_for_account"
    /\ last.res = "Ok"
    /\ Len(events) = 1
    /\ <<last.new_account, last.origin.who>> \in votes
    /\ \E p \in votes : p[1] # last.new_account

\* C13: for every signer, call and state pre_dispatch accepts exactly when
\* validate accepts and rejects with BadSigner exactly when validate rejects;
\* its answer depends on nothing but the signer, the call and the allow-list.
C13_PreDispatchAsValidate ==
    /\ \A who \in Accounts, call \in Calls, ref_time \in RefTimes :
        LET v == validate(who, call, ref_time)
            p == pre_dispatch(who, call, ref_time)
        IN  /\ p.tag = v.tag
            /\ p.tag = "Err" => p.err = "BadSigner" /\ v.err = "BadSigner"
    /\ last.op = "pre_dispatch" =>
        last.res.tag = (IF last.call \in CallsToFilter /\ last.who \notin allowedAccounts
                        THEN "Err" ELSE "Ok")

\* C13 witness: pre_dispatch rejected a restricted call of a non-member right
\* after a state in which votes are on record.
C13_Witness ==
    /\ last.op = "pre_dispatch"
    /\ last.call \in CallsToFilter
    /\ last.res = [tag |-> "Err", err |-> "BadSigner"]
    /\ votes # {}

\* C14: an admission check, accepting or rejecting, at validate or at
\* pre_dispatch, leaves the allow-list and the votes as they were and deposits
\* no event.
C14_AdmissionCheckReadsOnly ==
    [][last'.op \in {"validate", "pre_dispatch"} =>
            /\ allowedAccounts' = allowedAccounts
            /\ votes' = votes
            /\ events' = <<>>]_vars

\* C14 witness: validate accepted an unrestricted call of a non-member while
\* votes are on record.
C14_Witness ==
    /\ last.op = "validate"
    /\ last.who \notin allowedAccounts
    /\ last.res.tag = "Ok"
    /\ votes # {}

\* C15: every voter recorded in the votes is a member and every candidate it
\* is recorded for is a non-member.
C15_VotersMembersCandidatesNot ==
    \A p \in votes : p[2] \in allowedAccounts /\ p[1] \notin allowedAccounts

\* C15 witness: a vote of a promoted account is on record.
C15_Witness ==
    \E p \in votes : p[2] \notin genesisAccounts

\* C16: the pairs recorded for a candidate c leave the votes only in the
\* step that promotes c, all together; a successful vote for c that does not
\* promote it adds its voter; every other step, votes and promotions of other
\* candidates included, leaves the pairs of c as they were.
C16_VotesLeaveOnlyOnPromotion ==
    [][\A c \in Accounts :
        IF c \notin allowedAccounts /\ c \in allowedAccounts'
        THEN VotersFor(c)' = {}
        ELSE IF last'.op = "vote_for_account" /\ last'.res = "Ok" /\ last'.new_account = c
        THEN VotersFor(c)' = VotersFor(c) \cup {last'.origin.who}
        ELSE VotersFor(c)' = VotersFor(c)]_vars

\* C16 witness: a candidate was promoted while a vote for another candidate
\* stays on record under a threshold of 100 percent.
C16_Witness ==
    /\ Promoted
    /\ votesToAllow = 100
    /\ \E c \in Accounts \ {last.new_account} : VotersFor(c) # {}

\* C17: every candidate with a recorded vote has fewer recorded votes than the
\* quorum of the current membership, recorded * 100 < threshold * members; so
\* no non-member has been voted for by all current members.
C17_RecordedBelowQuorum ==
    \A c \in Accounts :
        /\ VotersFor(c) # {} =>
                Cardinality(VotersFor(c)) * 100 < votesToAllow * Cardinality(allowedAccounts)
        /\ (c \notin allowedAccounts /\ allowedAccounts # {}) =>
                VotersFor(c) # allowedAccounts

\* C17 witness: two of three members have voted for a candidate.
C17_Witness ==
    \E c \in Accounts :
        /\ Cardinality(VotersFor(c)) = 2
        /\ Cardinality(allowedAccounts) = 3

\* C18: whenever vote_for_account reaches the quorum computation,
\* 1 <= votes_for <= votes_required: from_rational is called with a non-zero
\* denominator and a numerator that does not exceed it.
C18_QuorumArgumentsInRange ==
    [][\A v, c \in Accounts :
        (VotedBy(v, c)' /\ last'.res = "Ok") =>
            /\ 1 <= votes_for(c)
            /\ votes_for(c) <= votes_required
            /\ votes_for(c) = Cardinality(VotersFor(c)) + 1
            /\ votes_required = Cardinality(allowedAccounts)]_vars

\* C18 witness: the vote of the last of three members reached the quorum
\* computation with votes_for = votes_required = 3.
C18_Witness ==
    /\ Promoted
    /\ Len(events[2].voted_for) = 3
    /\ Cardinality(allowedAccounts) = 4

\* C19: with an empty genesis allow-list the allow-list and the votes stay
\* empty, every signed vote_for_account fails with NotAllowedToVote, no event
\* is deposited and every restricted call is rejected.
C19_EmptyGenesisStaysEmpty ==
    genesisAccounts = {} =>
        /\ allowedAccounts = {}
        /\ votes = {}
        /\ events = <<>>
        /\ (last.op = "vote_for_account" /\ last.origin.kind = "Signed")
                => last.res = "NotAllowedToVote"
        /\ (last.op \in {"validate", "pre_dispatch"} /\ last.call \in CallsToFilter)
                => last.res = [tag |-> "Err", err |-> "BadSigner"]

\* C19 witness: under an empty genesis allow-list a signed vote was refused.
C19_Witness ==
    /\ genesisAccounts = {}
    /\ last.op = "vote_for_account"
    /\ last.origin.kind = "Signed"
    /\ last.res = "NotAllowedToVote"

\* A member v casts the vote for c it is permitted to cast.
CastVote(v, c) ==
    /\ v \in allowedAccounts
    /\ c \notin allowedAccounts
    /\ <<c, v>> \notin votes
    /\ VoteForAccount(Signed(v), c)

\* Some member casts a vote it is permitted to cast.
CastSomeVote ==
    \E v, c \in Accounts : CastVote(v, c)

\* The pallet under the hypothesis of C20, that permitted votes are eventually
\* cast. Weak fairness is asked of the votes taken together, which is no more
\* than weak fairness of each: only a cast vote changes which votes are
\* permitted, so while none is cast each permitted vote stays permitted.
FairSpec ==
    /\ Init
    /\ [][Next]_vars
    /\ WF_vars(CastSomeVote)

\* C20: with a non-empty genesis allow-list and a threshold in (0, 100], every
\* non-member candidate is eventually promoted, provided every permitted vote
\* is eventually cast; promotions of other candidates in between do not
\* prevent it. Stated as: eventually every account is a member (members stay
\* members, so this is each candidate being promoted at some time).
C20_EveryCandidatePromoted ==
    (genesisAccounts # {} /\ votesToAllow > 0) => <>(allowedAccounts = Accounts)

\* C20 witness: under a positive threshold a candidate was promoted by the
\* vote of an account promoted before it, its quorum raised meanwhile.
C20_Witness ==
    /\ Promoted
    /\ votesToAllow > 0
    /\ genesisAccounts # {}
    /\ last.origin.who \notin genesisAccounts
    /\ Len(events[2].voted_for) >= 2

====
